---- MODULE Spec2Model ----
(***************************************************************************)
(* Model of app.py of the Business Intelligence Agent UI: the pipeline    *)
(* runner that merges the agent's state deltas, the SQL text normalizer,   *)
(* the three-strategy result parser, the chart synthesizer, the            *)
(* synchronous wrapper with its process-wide table slot, and CSV export.   *)
(*                                                                         *)
(* Text is a sequence of one-character strings, so that strip, split,      *)
(* replace and startswith are computed, not assumed.  A literal of the     *)
(* program that is only ever copied to the output is a single atom.        *)
(*                                                                         *)
(* A local variable of the code that is read more than once is the         *)
(* parameter of a local operator, applied once to the value assigned.      *)
(***************************************************************************)
EXTENDS Integers, Sequences, FiniteSets, TLC

VARIABLES
    pc,                 \* per request: where process_request is
    message,            \* per request: the question passed in
    events,             \* per request: the events the agent run has emitted
    results,            \* per request: run_bi_pipeline_async's results dict
    asyncRet,           \* per request: the tuple process_request_async returned
    ret,                \* per request: the tuple process_request returned
    calls,              \* per request: calls issued to the external agent
    execd,              \* per request: how exec() of the charting script ended
    overlaps,           \* per request: the requests in flight when it started
    current_df_storage, \* the module global of app.py
    lastWrap,           \* the request whose process_request returned last
    exported,           \* what the last download_query_results returned
    arg,                \* pure-function specifications: the input
    res,                \* ... the result
    res2,               \* ... the result of a second application
    step,               \* ... the position
    tried               \* ... the strategies the parser has attempted

flowVars == <<pc, message, events, results, asyncRet, ret, calls, execd, overlaps,
              current_df_storage, lastWrap, exported>>
fnVars == <<arg, res, res2, step, tried>>
vars == <<pc, message, events, results, asyncRet, ret, calls, execd, overlaps,
          current_df_storage, lastWrap, exported, arg, res, res2, step, tried>>

---------------------------------------------------------------------------
(* Python str operations on sequences of characters *)

IsWs(c) == c \in {" ", "\n", "\t", "\r"}

RECURSIVE LStrip(_)
LStrip(s) == IF s # <<>> /\ IsWs(Head(s)) THEN LStrip(Tail(s)) ELSE s

RECURSIVE RStrip(_)
RStrip(s) ==
    IF s # <<>> /\ IsWs(s[Len(s)]) THEN RStrip(SubSeq(s, 1, Len(s) - 1)) ELSE s

\* str.strip()
Strip(s) == RStrip(LStrip(s))

\* str.startswith(p)
StartsWith(s, p) == Len(s) >= Len(p) /\ SubSeq(s, 1, Len(p)) = p

\* str.endswith(p)
EndsWith(s, p) == Len(s) >= Len(p) /\ SubSeq(s, Len(s) - Len(p) + 1, Len(s)) = p

\* str.find(p) + 1: the first position of p in s, 0 when absent
Find(s, p) ==
    LET hits == { i \in 1..(Len(s) - Len(p) + 1) : SubSeq(s, i, i + Len(p) - 1) = p }
    IN  IF hits = {} THEN 0 ELSE CHOOSE i \in hits : \A j \in hits : i <= j

\* p in s
Contains(s, p) == Find(s, p) # 0

\* s[n:]
From(s, n) == SubSeq(s, n, Len(s))

\* s[:n]
Take(s, n) == SubSeq(s, 1, IF n < Len(s) THEN n ELSE Len(s))

\* str.replace(p, q): the non-overlapping occurrences, left to right
RECURSIVE ReplaceAll(_, _, _)
ReplaceAll(s, p, q) ==
    LET i == Find(s, p)
    IN  IF i = 0 THEN s
        ELSE SubSeq(s, 1, i - 1) \o q \o ReplaceAll(From(s, i + Len(p)), p, q)

\* str.replace(p, "")
RemoveAll(s, p) == ReplaceAll(s, p, <<>>)

\* str.split(p)[-1]
RECURSIVE LastPiece(_, _)
LastPiece(s, p) ==
    LET i == Find(s, p)
    IN  IF i = 0 THEN s ELSE LastPiece(From(s, i + Len(p)), p)

\* str.split(p): the pieces, in order
RECURSIVE Split(_, _)
Split(s, p) ==
    LET i == Find(s, p)
    IN  IF i = 0 THEN <<s>>
        ELSE <<SubSeq(s, 1, i - 1)>> \o Split(From(s, i + Len(p)), p)

\* the concatenation of a sequence of texts
RECURSIVE Concat(_)
Concat(ss) == IF ss = <<>> THEN <<>> ELSE Head(ss) \o Concat(Tail(ss))

\* the sequences over S of length at most n
SeqsUpTo(S, n) == UNION { [1..k -> S] : k \in 0..n }

---------------------------------------------------------------------------
(* Literals of app.py.  The TLA+ lexer accepts no backquote inside a string: *)
(* the backquote character is written "^" throughout.                        *)

CloseMarker == <<"<", "/", "t", "h", "i", "n", "k", "i", "n", "g", "_",
                 "p", "r", "o", "c", "e", "s", "s", ">">>
OpenMarker == <<"<", "t", "h", "i", "n", "k", "i", "n", "g", "_",
                "p", "r", "o", "c", "e", "s", "s", ">">>
Fence == <<"^", "^", "^">>
FenceSql == <<"^", "^", "^", "s", "q", "l">>
FencePython == <<"^", "^", "^", "p", "y", "t", "h", "o", "n">>

---------------------------------------------------------------------------
(* 4.1 SQL Text Normalizer: process_request_async, lines 166-174 *)

\* lines 167-168: the text after the last closing marker, when there is one
AfterMarker(sql) ==
    IF Contains(sql, CloseMarker) THEN Strip(LastPiece(sql, CloseMarker)) ELSE sql

\* the normalizer without the strip() that follows the fence removal
NormalizeSqlNoFinalStrip(sql) ==
    LET Unfenced(s) ==
            IF StartsWith(s, FenceSql)
            THEN RemoveAll(RemoveAll(s, FenceSql), Fence)
            ELSE IF StartsWith(s, Fence)
            THEN RemoveAll(s, Fence)
            ELSE s
    IN  Unfenced(Strip(AfterMarker(sql)))

\* lines 167-174: Unfenced is applied to sql_query as line 170 leaves it
NormalizeSql(sql) ==
    LET Unfenced(s) ==
            IF StartsWith(s, FenceSql)
            THEN Strip(RemoveAll(RemoveAll(s, FenceSql), Fence))
            ELSE IF StartsWith(s, Fence)
            THEN Strip(RemoveAll(s, Fence))
            ELSE s
    IN  Unfenced(Strip(AfterMarker(sql)))

---------------------------------------------------------------------------
(* Values of Python's json module.  Every value is a record of the same    *)
(* shape: a scalar holds its text in s, a list its elements in items, a    *)
(* dict its keys (in order) in keys and their values in items.             *)

JV(t, s, items, keys) == [t |-> t, s |-> s, items |-> items, keys |-> keys]
JNull == JV("null", <<>>, <<>>, <<>>)
JTrue == JV("true", <<>>, <<>>, <<>>)
JFalse == JV("false", <<>>, <<>>, <<>>)
JNum(s) == JV("num", s, <<>>, <<>>)
JStr(s) == JV("str", s, <<>>, <<>>)
JList(items) == JV("list", <<>>, items, <<>>)
JDict(keys, items) == JV("dict", <<>>, items, keys)

\* dict.get(key, default): the value of the last entry with that key
DictGet(d, key, default) ==
    LET hits == { i \in 1..Len(d.keys) : d.keys[i] = key }
    IN  IF hits = {} THEN default
        ELSE d.items[CHOOSE i \in hits : \A j \in hits : j <= i]

\* key in d
DictHas(d, key) == \E i \in 1..Len(d.keys) : d.keys[i] = key

\* bool(v)
Truthy(v) ==
    CASE v.t = "true" -> TRUE
      [] v.t = "num" -> \E i \in 1..Len(v.s) : v.s[i] \in {"1", "2", "3", "4", "5", "6", "7", "8", "9"}
      [] v.t = "str" -> v.s # <<>>
      [] v.t = "list" -> v.items # <<>>
      [] v.t = "dict" -> v.keys # <<>>
      [] OTHER -> FALSE

\* str(v) of a value placed in an f-string; a non-string is shown by its type
PyStr(v) == IF v.t = "str" THEN v.s ELSE <<"<", v.t, ">">>

---------------------------------------------------------------------------
(* json.loads, for JSON texts without \u escapes *)

Digits == {"0", "1", "2", "3", "4", "5", "6", "7", "8", "9"}

\* the character at position i, "" past the end
At(s, i) == IF i >= 1 /\ i <= Len(s) THEN s[i] ELSE ""

HasLit(s, i, lit) == i + Len(lit) - 1 <= Len(s) /\ SubSeq(s, i, i + Len(lit) - 1) = lit

RECURSIVE SkipWs(_, _)
SkipWs(s, i) == IF At(s, i) \in {" ", "\t", "\n", "\r"} THEN SkipWs(s, i + 1) ELSE i

RECURSIVE SkipDigits(_, _)
SkipDigits(s, i) == IF At(s, i) \in Digits THEN SkipDigits(s, i + 1) ELSE i

ParseFail == [ok |-> FALSE, v |-> JNull, next |-> 0]
ParseOk(v, next) == [ok |-> TRUE, v |-> v, next |-> next]

\* NUMBER_RE: -?(0|[1-9]\d*)(\.\d+)?([eE][-+]?\d+)?
ParseNumber(s, i) ==
    LET Exponent(j, fracEnd, expAt) ==
            IF At(s, fracEnd) \in {"e", "E"} /\ At(s, expAt) \in Digits
            THEN ParseOk(JNum(SubSeq(s, i, SkipDigits(s, expAt) - 1)), SkipDigits(s, expAt))
            ELSE ParseOk(JNum(SubSeq(s, i, fracEnd - 1)), fracEnd)
        Fraction(j, fracEnd) ==
            Exponent(j, fracEnd,
                     IF At(s, fracEnd + 1) \in {"+", "-"} THEN fracEnd + 2 ELSE fracEnd + 1)
        Integer(j, intEnd) ==
            Fraction(j, IF At(s, intEnd) = "." /\ At(s, intEnd + 1) \in Digits
                        THEN SkipDigits(s, intEnd + 1) ELSE intEnd)
        Signed(j) ==
            IF At(s, j) \in Digits
            THEN Integer(j, IF At(s, j) = "0" THEN j + 1 ELSE SkipDigits(s, j))
            ELSE ParseFail
    IN  Signed(IF At(s, i) = "-" THEN i + 1 ELSE i)

Unescape(c) ==
    CASE c = "n" -> "\n" [] c = "t" -> "\t" [] c = "r" -> "\r"
      [] c = "b" -> "\\b" [] c = "f" -> "\\f" [] OTHER -> c

\* py_scanstring from the character after the opening quote (strict mode)
RECURSIVE ScanString(_, _, _)
ScanString(s, i, acc) ==
    LET c == At(s, i)
    IN  IF i > Len(s) THEN ParseFail
        ELSE IF c = "\"" THEN ParseOk(JStr(acc), i + 1)
        ELSE IF c = "\\"
        THEN IF At(s, i + 1) \in {"\"", "\\", "/", "b", "f", "n", "r", "t"}
             THEN ScanString(s, i + 2, Append(acc, Unescape(At(s, i + 1))))
             ELSE ParseFail
        ELSE IF c \in {"\n", "\t", "\r"} THEN ParseFail
        ELSE ScanString(s, i + 1, Append(acc, c))

RECURSIVE ParseValue(_, _)
RECURSIVE ParseElems(_, _, _)
RECURSIVE ParseMembers(_, _, _, _)

\* JSONArray after its first element's position
ParseElems(s, i, acc) ==
    LET After(e, k) ==
            IF At(s, k) = "]" THEN ParseOk(JList(Append(acc, e.v)), k + 1)
            ELSE IF At(s, k) = "," THEN ParseElems(s, SkipWs(s, k + 1), Append(acc, e.v))
            ELSE ParseFail
        Elem(e) == IF ~e.ok THEN ParseFail ELSE After(e, SkipWs(s, e.next))
    IN  Elem(ParseValue(s, i))

\* JSONObject from the opening quote of a key
ParseMembers(s, i, keys, items) ==
    LET After(key, e, k) ==
            IF At(s, k) = "}"
            THEN ParseOk(JDict(Append(keys, key.v.s), Append(items, e.v)), k + 1)
            ELSE IF At(s, k) = ","
            THEN ParseMembers(s, SkipWs(s, k + 1), Append(keys, key.v.s), Append(items, e.v))
            ELSE ParseFail
        Member(key, e) == IF ~e.ok THEN ParseFail ELSE After(key, e, SkipWs(s, e.next))
        Colon(key, c) ==
            IF At(s, c) # ":" THEN ParseFail
            ELSE Member(key, ParseValue(s, SkipWs(s, c + 1)))
        Key(key) == IF ~key.ok THEN ParseFail ELSE Colon(key, SkipWs(s, key.next))
    IN  IF At(s, i) # "\"" THEN ParseFail ELSE Key(ScanString(s, i + 1, <<>>))

\* scan_once: the value that starts at position i
ParseValue(s, i) ==
    LET Object(k) ==
            IF At(s, k) = "}" THEN ParseOk(JDict(<<>>, <<>>), k + 1)
            ELSE ParseMembers(s, k, <<>>, <<>>)
        Array(k) ==
            IF At(s, k) = "]" THEN ParseOk(JList(<<>>), k + 1)
            ELSE ParseElems(s, k, <<>>)
        NumberOrConstant(number) ==
            IF number.ok THEN number
            ELSE IF HasLit(s, i, <<"N", "a", "N">>) THEN ParseOk(JNum(<<"N", "a", "N">>), i + 3)
            ELSE IF HasLit(s, i, <<"I", "n", "f", "i", "n", "i", "t", "y">>)
            THEN ParseOk(JNum(SubSeq(s, i, i + 7)), i + 8)
            ELSE IF HasLit(s, i, <<"-", "I", "n", "f", "i", "n", "i", "t", "y">>)
            THEN ParseOk(JNum(SubSeq(s, i, i + 8)), i + 9)
            ELSE ParseFail
    IN  IF At(s, i) = "\"" THEN ScanString(s, i + 1, <<>>)
        ELSE IF At(s, i) = "{" THEN Object(SkipWs(s, i + 1))
        ELSE IF At(s, i) = "[" THEN Array(SkipWs(s, i + 1))
        ELSE IF HasLit(s, i, <<"n", "u", "l", "l">>) THEN ParseOk(JNull, i + 4)
        ELSE IF HasLit(s, i, <<"t", "r", "u", "e">>) THEN ParseOk(JTrue, i + 4)
        ELSE IF HasLit(s, i, <<"f", "a", "l", "s", "e">>) THEN ParseOk(JFalse, i + 5)
        ELSE NumberOrConstant(ParseNumber(s, i))

\* json.loads(s): ok is FALSE where it raises JSONDecodeError
JsonLoads(s) ==
    LET Whole(e) == IF e.ok /\ SkipWs(s, e.next) = Len(s) + 1 THEN e ELSE ParseFail
    IN  Whole(ParseValue(s, SkipWs(s, 1)))

---------------------------------------------------------------------------
(* 4.2 Result Parser: process_request_async, lines 180-247 *)

KeySuccess == <<"s", "u", "c", "c", "e", "s", "s">>
KeyData == <<"d", "a", "t", "a">>
KeyError == <<"e", "r", "r", "o", "r">>

\* 'Could not parse query results. Output: '
CouldNotParse ==
    <<"C", "o", "u", "l", "d", " ", "n", "o", "t", " ", "p", "a", "r", "s", "e", " ",
      "q", "u", "e", "r", "y", " ", "r", "e", "s", "u", "l", "t", "s", ".", " ",
      "O", "u", "t", "p", "u", "t", ":", " ">>

\* raw_str[:100]
ErrorOutputChars == 100

\* len(table_lines) >= 3
MinTableLines == 3

\* table_lines[2:], as the first position kept (positions count from 1)
FirstRowLine == 3

LowerLetters == <<"a", "b", "c", "d", "e", "f", "g", "h", "i", "j", "k", "l", "m",
                  "n", "o", "p", "q", "r", "s", "t", "u", "v", "w", "x", "y", "z">>
UpperLetters == <<"A", "B", "C", "D", "E", "F", "G", "H", "I", "J", "K", "L", "M",
                  "N", "O", "P", "Q", "R", "S", "T", "U", "V", "W", "X", "Y", "Z">>
Letters == { LowerLetters[i] : i \in 1..Len(LowerLetters) }
               \cup { UpperLetters[i] : i \in 1..Len(UpperLetters) }

\* str.lower()
LowerChar(c) ==
    IF \E i \in 1..Len(UpperLetters) : UpperLetters[i] = c
    THEN LowerLetters[CHOOSE i \in 1..Len(UpperLetters) : UpperLetters[i] = c]
    ELSE c
Lower(s) == [i \in 1..Len(s) |-> LowerChar(s[i])]

RECURSIVE SkipLetters(_, _)
SkipLetters(s, i) == IF At(s, i) \in Letters THEN SkipLetters(s, i + 1) ELSE i

\* re.sub(r'^```[a-z]*\s*', '', s, flags=re.IGNORECASE)
StripFenceOpen(s) ==
    IF StartsWith(s, Fence) THEN From(s, SkipWs(s, SkipLetters(s, Len(Fence) + 1))) ELSE s

\* re.sub(r'\s*```$', '', s), for s that does not end with a line break
StripFenceClose(s) ==
    IF EndsWith(s, Fence) THEN RStrip(SubSeq(s, 1, Len(s) - Len(Fence))) ELSE s

StrategyRaised == [ok |-> FALSE, v |-> JNull]
StrategyResult(v) == [ok |-> TRUE, v |-> v]

\* Method 1 (lines 188-197); ok is FALSE where json.loads raises
JsonStrategy(raw) ==
    LET Loaded(parsed) ==
            IF ~parsed.ok THEN StrategyRaised
            ELSE IF parsed.v.t = "list"
            THEN StrategyResult(JDict(<<KeySuccess, KeyData>>, <<JTrue, parsed.v>>))
            ELSE StrategyResult(parsed.v)
    IN  Loaded(JsonLoads(StripFenceClose(StripFenceOpen(raw))))

\* str.strip('|')
RECURSIVE StripPipes(_)
StripPipes(s) ==
    IF s # <<>> /\ Head(s) = "|" THEN StripPipes(Tail(s))
    ELSE IF s # <<>> /\ s[Len(s)] = "|" THEN StripPipes(SubSeq(s, 1, Len(s) - 1))
    ELSE s

\* [v.strip() for v in line.strip('|').split('|')]
Cells(line) ==
    LET Stripped(parts) == [i \in 1..Len(parts) |-> Strip(parts[i])]
    IN  Stripped(Split(StripPipes(line), <<"|">>))

\* line 209: h.replace('\\_', '_')
Headers(line) ==
    LET Unescaped(cells) ==
            [i \in 1..Len(cells) |-> ReplaceAll(cells[i], <<"\\", "_">>, <<"_">>)]
    IN  Unescaped(Cells(line))

\* lines 204-205: the stripped lines that hold a pipe
TableLines(raw) ==
    LET HasPipe(l) == Contains(l, <<"|">>) /\ Strip(l) # <<>>
        Stripped(kept) == [i \in 1..Len(kept) |-> Strip(kept[i])]
    IN  Stripped(SelectSeq(Split(raw, <<"\n">>), HasPipe))

\* float(val) does not raise: [sign] digits [. digits] [e [sign] digits]
FloatOk(val) ==
    LET Ends(s, end) == end = Len(s) + 1
        ExponentDigits(s, expAt, end) == end > expAt /\ Ends(s, end)
        Exponent(s, fracEnd, expAt) ==
            IF At(s, fracEnd) \in {"e", "E"}
            THEN ExponentDigits(s, expAt, SkipDigits(s, expAt))
            ELSE Ends(s, fracEnd)
        Fraction(s, j, intEnd, fracEnd) ==
            /\ intEnd > j \/ fracEnd > intEnd + 1
            /\ Exponent(s, fracEnd,
                        IF At(s, fracEnd + 1) \in {"+", "-"} THEN fracEnd + 2 ELSE fracEnd + 1)
        Integer(s, j, intEnd) ==
            Fraction(s, j, intEnd,
                     IF At(s, intEnd) = "." THEN SkipDigits(s, intEnd + 1) ELSE intEnd)
        Signed(s, j) == Integer(s, j, SkipDigits(s, j))
        Stripped(s) == Signed(s, IF At(s, 1) \in {"+", "-"} THEN 2 ELSE 1)
    IN  Stripped(Strip(val))

\* lines 221-224: the cell as a float when it parses, else as the string
Coerce(val) == IF FloatOk(val) THEN JNum(val) ELSE JStr(val)

\* lines 217-224: row_dict; a repeated header keeps its first place, last value
RowDict(headers, values) ==
    LET firsts == SelectSeq([i \in 1..Len(headers) |-> i],
                            LAMBDA i : \A j \in 1..(i - 1) : headers[j] # headers[i])
        LastOf(h) == CHOOSE i \in 1..Len(headers) :
                        headers[i] = h /\ \A j \in 1..Len(headers) : headers[j] = h => j <= i
    IN  JDict([k \in 1..Len(firsts) |-> headers[firsts[k]]],
              [k \in 1..Len(firsts) |-> Coerce(values[LastOf(headers[firsts[k]])])])

\* the row test without the comparison with the header row
IsRowLineAcceptingHeader(headers, line) ==
    LET Row(values) == Len(values) = Len(headers)
    IN  /\ ~(StartsWith(line, <<":">>) \/ Contains(line, <<"-", "-", "-">>))
        /\ Row(Cells(line))

\* lines 213-216: the line is not skipped and its cells make a row
IsRowLine(headers, line) ==
    LET Row(values) == Len(values) = Len(headers) /\ values # headers
    IN  /\ ~(StartsWith(line, <<":">>) \/ Contains(line, <<"-", "-", "-">>))
        /\ Row(Cells(line))

\* Method 2 (lines 204-236); ok is FALSE where it raises ValueError
MarkdownStrategy(raw) ==
    LET Collected(data_list) ==
            IF data_list # <<>>
            THEN StrategyResult(JDict(<<KeySuccess, KeyData>>, <<JTrue, JList(data_list)>>))
            ELSE StrategyRaised
        Rows(headers, rowLines) ==
            Collected([i \in 1..Len(rowLines) |-> RowDict(headers, Cells(rowLines[i]))])
        Table(table_lines, headers) ==
            Rows(headers, SelectSeq(SubSeq(table_lines, FirstRowLine, Len(table_lines)),
                                    LAMBDA line : IsRowLine(headers, line)))
        Lines(table_lines) ==
            IF Len(table_lines) >= MinTableLines
            THEN Table(table_lines, Headers(table_lines[1]))
            ELSE StrategyRaised
    IN  Lines(TableLines(raw))

\* the fallback keeping 200 characters, as the log line 240 does
FallbackResultLong(raw) ==
    JDict(<<KeySuccess, KeyData, KeyError>>,
          <<JFalse, JList(<<>>), JStr(CouldNotParse \o Take(raw, 200))>>)

\* Method 3 (lines 243-247)
FallbackResult(raw) ==
    JDict(<<KeySuccess, KeyData, KeyError>>,
          <<JFalse, JList(<<>>), JStr(CouldNotParse \o Take(raw, ErrorOutputChars))>>)

\* line 186: raw_str = str(query_results_str).strip()
RawStr(query_results_str) == Strip(query_results_str)

\* lines 180-247: what query_results is bound to at line 248
ParseResults(query_results_str) ==
    LET Method2(raw, table) == IF table.ok THEN table.v ELSE FallbackResult(raw)
        Method1(raw, json) == IF json.ok THEN json.v ELSE Method2(raw, MarkdownStrategy(raw))
        Methods(raw) == Method1(raw, JsonStrategy(raw))
    IN  Methods(RawStr(query_results_str))

---------------------------------------------------------------------------
(* Bounded inputs of the SQL Text Normalizer *)

MaxSqlFrags == 4

SqlFragments ==
    { FenceSql, Fence, CloseMarker,
      <<"<", "/", "t", "h", "i", "n", "k", "i", "n", "g", "_">>,
      <<"p", "r", "o", "c", "e", "s", "s", ">">>,
      <<"S", "E", "L", "E", "C", "T", " ", "1">>,
      <<"\n">> }

\* "<thinking_process>plan</thinking_process>^^^sql\nSELECT 1\n^^^"
SqlSpecExample ==
    OpenMarker \o <<"p", "l", "a", "n">> \o CloseMarker \o FenceSql \o <<"\n">>
    \o <<"S", "E", "L", "E", "C", "T", " ", "1">> \o <<"\n">> \o Fence

SqlInputs ==
    { Concat(fs) : fs \in SeqsUpTo(SqlFragments, MaxSqlFrags) } \cup {SqlSpecExample}

---------------------------------------------------------------------------
(* Bounded inputs of the Result Parser *)

\* []
JsonEmptyList == <<"[", "]">>

\* {}   (also the default of results.get('query_results', '{}'))
JsonEmptyDict == <<"{", "}">>

\* [{}]
JsonOneEmptyRow == <<"[", "{", "}", "]">>

\* [{"a":1},{"a":2}]
JsonTwoRows ==
    <<"[", "{", "\"", "a", "\"", ":", "1", "}", ",", "{", "\"", "a", "\"",
      ":", "2", "}", "]">>

\* [1]
JsonScalarList == <<"[", "1", "]">>

\* 5
JsonNumber == <<"5">>

\* null
JsonNull == <<"n", "u", "l", "l">>

\* {"success":true,"data":[{"a":1}]}
JsonSuccessRows ==
    <<"{", "\"", "s", "u", "c", "c", "e", "s", "s", "\"", ":", "t", "r", "u",
      "e", ",", "\"", "d", "a", "t", "a", "\"", ":", "[", "{", "\"", "a",
      "\"", ":", "1", "}", "]", "}">>

\* {"success":false,"error":"e"}
JsonFailure ==
    <<"{", "\"", "s", "u", "c", "c", "e", "s", "s", "\"", ":", "f", "a", "l",
      "s", "e", ",", "\"", "e", "r", "r", "o", "r", "\"", ":", "\"", "e",
      "\"", "}">>

\* {"success":false,"data":[1]}
JsonFailureWithData ==
    <<"{", "\"", "s", "u", "c", "c", "e", "s", "s", "\"", ":", "f", "a", "l",
      "s", "e", ",", "\"", "d", "a", "t", "a", "\"", ":", "[", "1", "]", "}">>

\* {"success":true,"data":"x"}
JsonSuccessText ==
    <<"{", "\"", "s", "u", "c", "c", "e", "s", "s", "\"", ":", "t", "r", "u",
      "e", ",", "\"", "d", "a", "t", "a", "\"", ":", "\"", "x", "\"", "}">>

\* {"success":true}
JsonSuccessNoData ==
    <<"{", "\"", "s", "u", "c", "c", "e", "s", "s", "\"", ":", "t", "r", "u",
      "e", "}">>

\* ^^^json\n[{"a":1}]\n^^^
JsonFenced ==
    <<"^", "^", "^", "j", "s", "o", "n", "\n", "[", "{", "\"", "a", "\"",
      ":", "1", "}", "]", "\n", "^", "^", "^">>

\* connection refused
TextRefused ==
    <<"c", "o", "n", "n", "e", "c", "t", "i", "o", "n", " ", "r", "e", "f",
      "u", "s", "e", "d">>

\*  connection refused \n   (with surrounding whitespace)
TextPadded == <<" ">> \o TextRefused \o <<" ", "\n">>

\* a text longer than the 100 characters the fallback keeps
LongTextLen == 105
TextLong == [i \in 1..LongTextLen |-> IF i % 2 = 1 THEN "x" ELSE "y"]

MaxTableLines == 4

\* lines a Markdown table (or something like one) is made of
TableLineSet ==
    { <<"a", "|", "b">>,
      <<"-", "-", "-", "|", "-", "-", "-">>,
      <<":", "-", "|", "-", ":">>,
      <<"1", "|", "x">>,
      <<"2", "|", "y">>,
      <<"1", "|", "x", "|", "3">>,
      <<"p", "l", "a", "i", "n">> }

\* "\n".join(lines)
RECURSIVE JoinLines(_)
JoinLines(ls) ==
    IF ls = <<>> THEN <<>>
    ELSE IF Len(ls) = 1 THEN Head(ls)
    ELSE Head(ls) \o <<"\n">> \o JoinLines(Tail(ls))

\* | a\_b | c |\n|---|---|\n| 1.5 | z |
TableEscaped ==
    JoinLines(<< <<"|", " ", "a", "\\", "_", "b", " ", "|", " ", "c", " ", "|">>,
                 <<"|", "-", "-", "-", "|", "-", "-", "-", "|">>,
                 <<"|", " ", "1", ".", "5", " ", "|", " ", "z", " ", "|">> >>)

JsonInputs ==
    { JsonEmptyList, JsonEmptyDict, JsonOneEmptyRow, JsonTwoRows, JsonScalarList,
      JsonNumber, JsonNull, JsonSuccessRows, JsonFailure, JsonFailureWithData,
      JsonSuccessText, JsonSuccessNoData, JsonFenced }

ParseInputs ==
    JsonInputs \cup {TextRefused, TextPadded, TextLong, TableEscaped}
    \cup { JoinLines(ls) : ls \in SeqsUpTo(TableLineSet, MaxTableLines) }

---------------------------------------------------------------------------
(* Tabular result: pd.DataFrame of lines 257 and 260, for a data that is a  *)
(* list of mappings or of scalars, or no list at all                       *)

DataFrame(rows, cols, data) == [kind |-> "DataFrame", rows |-> rows, cols |-> cols, data |-> data]

\* df is None
NoneDf == [kind |-> "None", rows |-> 0, cols |-> {}, data |-> <<>>]

\* pd.DataFrame()
EmptyDf == DataFrame(0, {}, <<>>)

\* df.empty: an axis of length 0
DfEmpty(df) == df.rows = 0 \/ df.cols = {}

\* pd.DataFrame(data_list), ok FALSE where the constructor raises ValueError
BuildDataFrame(data) ==
    LET items == data.items
        n == Len(items)
    IN  IF data.t = "list" /\ \A i \in 1..n : items[i].t = "dict"
        THEN [ok |-> TRUE,
              df |-> DataFrame(n, UNION { { items[i].keys[k] : k \in 1..Len(items[i].keys) }
                                          : i \in 1..n }, items)]
        ELSE IF data.t = "list" /\ \A i \in 1..n : items[i].t \notin {"dict", "list"}
        THEN [ok |-> TRUE, df |-> DataFrame(n, { <<"0">> }, items)]
        ELSE [ok |-> FALSE, df |-> NoneDf]

---------------------------------------------------------------------------
(* 4.3 Chart Synthesizer: process_request_async, lines 281-316 *)

Import == <<"i", "m", "p", "o", "r", "t">>

\* lines 285-293: chart_spec_clean
CleanChartSpec(chart_spec) ==
    LET Unfenced(clean) == Strip(RemoveAll(RemoveAll(clean, FencePython), Fence))
        AfterThinking(clean, parts) ==
            IF Contains(clean, OpenMarker) /\ Len(parts) > 1
            THEN Unfenced(Strip(parts[Len(parts)]))
            ELSE Unfenced(clean)
        Stripped(clean) == AfterThinking(clean, Split(clean, CloseMarker))
    IN  Stripped(Strip(chart_spec))

\* line 296, negated: the cleaned script is handed to exec()
IsChartCode(clean) ==
    /\ clean # <<>>
    /\ ~StartsWith(clean, <<"<">>)
    /\ Contains(Lower(clean), Import)

\* what exec() of a model-supplied script can do: bind the name chart, bind
\* nothing, raise SyntaxError, raise another Exception, or raise SystemExit
\* (a BaseException that is no Exception)
ExecOutcomes == {"chart", "no_chart", "SyntaxError", "Exception", "SystemExit"}

\* the chart when a script that raised had already bound the name chart
ChartAfterExecKeepingPartial(outcome) ==
    IF outcome \in {"chart", "Exception"} THEN "chart" ELSE "None"

\* lines 281, 306-316: the chart after exec() with that outcome
ChartAfterExec(outcome) == IF outcome = "chart" THEN "chart" ELSE "None"

\* lines 313-316: the except clauses catch the outcome
CaughtByChartHandler(outcome) == outcome \in {"SyntaxError", "Exception"}

---------------------------------------------------------------------------
(* 4.4 Pipeline Orchestrator: process_request_async, lines 155-326 *)

EmptyDict == [k \in {} |-> <<>>]

\* results.get(key, default)
Get(d, key, default) == IF key \in DOMAIN d THEN d[key] ELSE default

\* the tuple a return statement gives, and the statement (via) that gave it
Tuple(via, sql, df, chart, expl) ==
    [via |-> via, sql |-> sql, df |-> df, chart |-> chart, expl |-> expl]

NoTuple == Tuple("none", <<>>, NoneDf, "None", <<>>)

\* line 158
RejectedTuple ==
    Tuple("line158", <<"Error: Please enter a question">>, NoneDf, "None",
          <<"Error: No question provided">>)

\* lines 321-326: error_msg = f"Error: {str(e)}"
OuterErrorTuple(e) == Tuple("line326", <<"Error: ">> \o e, NoneDf, "None", <<"Error: ">> \o e)

\* lines 249-252
QueryErrorTuple(sql, error_msg) ==
    Tuple("line252",
          <<"-- Error executing query\n">> \o sql \o <<"\n\n-- Error: ">> \o error_msg,
          NoneDf, "None", <<"Error executing query: ">> \o error_msg)

\* lines 256-258
NoDataTuple(sql) ==
    Tuple("line258", sql, EmptyDf, "None",
          <<"The query executed successfully but returned no data.">>)

\* lines 263-275: final_insights (the emoji of the headings left out)
Insights(state) ==
    LET trend_text == Get(state, "trend_insights", <<>>)
        explanation_text == Get(state, "explanation_text", <<>>)
        trends == IF trend_text # <<>>
                  THEN <<"### Strategic Trends\n">> \o trend_text \o <<"\n\n---\n">>
                  ELSE <<>>
        summary == IF explanation_text # <<>>
                   THEN <<"### Data Summary\n">> \o explanation_text
                   ELSE <<>>
    IN  IF trends \o summary # <<>> THEN trends \o summary
        ELSE <<"The query executed successfully but no additional insights were generated.">>

\* lines 283-296: exec() is reached
ExecReached(state) ==
    /\ Get(state, "chart_spec", <<>>) # <<>>
    /\ IsChartCode(CleanChartSpec(Get(state, "chart_spec", <<>>)))

\* lines 163-326 on the collected Pipeline State `state`, exec() ending with `outcome`
\* if it is reached: the tuple returned (raised: nothing is returned, the
\* outcome propagates), and what exec() did (exec: "no" when it did not run)
Interpret(state, outcome) ==
    LET returned(t) == [raised |-> FALSE, tuple |-> t, exec |-> "no"]
        \* lines 263-319
        Charted(sql_query, df, final_insights) ==
            IF ~ExecReached(state)
            THEN returned(Tuple("line319", sql_query, df, "None", final_insights))
            ELSE IF outcome \in {"chart", "no_chart"} \/ CaughtByChartHandler(outcome)
            THEN [raised |-> FALSE,
                  tuple |-> Tuple("line319", sql_query, df, ChartAfterExec(outcome),
                                  final_insights),
                  exec |-> outcome]
            ELSE [raised |-> TRUE, tuple |-> NoTuple, exec |-> outcome]
        \* line 260
        Framed(sql_query, built) ==
            IF ~built.ok
            THEN returned(OuterErrorTuple(<<"DataFrame constructor not properly called!">>))
            ELSE Charted(sql_query, built.df, Insights(state))
        \* lines 254-258
        Listed(sql_query, data_list) ==
            IF ~Truthy(data_list) THEN returned(NoDataTuple(sql_query))
            ELSE Framed(sql_query, BuildDataFrame(data_list))
        \* lines 249-252
        Parsed(sql_query, query_results) ==
            IF query_results.t # "dict"
            THEN returned(OuterErrorTuple(<<"'", query_results.t,
                                            "' object has no attribute 'get'">>))
            ELSE IF ~Truthy(DictGet(query_results, KeySuccess, JFalse))
            THEN returned(QueryErrorTuple(sql_query,
                     PyStr(DictGet(query_results, KeyError, JStr(<<"Unknown error">>)))))
            ELSE Listed(sql_query, DictGet(query_results, KeyData, JList(<<>>)))
    IN  Parsed(NormalizeSql(Get(state, "sql_query", <<>>)),
               ParseResults(Get(state, "query_results", JsonEmptyDict)))

---------------------------------------------------------------------------
(* run_bi_pipeline_async, lines 128-135: one event of the agent run *)

\* an event: actions is FALSE when event.actions is None
Event(actions, state_delta) == [actions |-> actions, state_delta |-> state_delta]

\* the merge in which a key keeps the value it got first
MergeEventFirstWins(state, event) ==
    IF event.actions /\ DOMAIN event.state_delta # {}
    THEN [k \in DOMAIN state \cup DOMAIN event.state_delta |->
             IF k \in DOMAIN state THEN state[k] ELSE event.state_delta[k]]
    ELSE state

\* lines 131-133: results after the event
MergeEvent(state, event) ==
    IF event.actions /\ DOMAIN event.state_delta # {}
    THEN [k \in DOMAIN state \cup DOMAIN event.state_delta |->
             IF k \in DOMAIN event.state_delta THEN event.state_delta[k] ELSE state[k]]
    ELSE state

---------------------------------------------------------------------------
(* process_request, lines 358-375, and download_query_results, 385-411 *)

\* lines 364-372: the tuple process_request returns for the inner tuple
WrapTuple(t) ==
    IF t.df = NoneDf \/ DfEmpty(t.df)
    THEN Tuple(t.via, t.sql, t.df, "placeholder", t.expl)
    ELSE t

\* what download_query_results returns: a message, or the path of a CSV file
\* holding `table`
Export(kind, table, after) == [kind |-> kind, table |-> table, after |-> after]
NoExport == Export("none", NoneDf, {})

---------------------------------------------------------------------------
(* Bounded inputs of the request flow *)

Requests == {"A", "B"}

MaxEvents == 2

\* the questions: empty, whitespace only, and a question
Messages == { <<>>, <<" ", "\n">>, <<"q">> }

\* ^^^sql\nSELECT 1\n^^^
SqlFenced ==
    FenceSql \o <<"\n">> \o <<"S", "E", "L", "E", "C", "T", " ", "1">> \o <<"\n">> \o Fence

\* <thinking_process>plan</thinking_process>^^^python\nimport x\n^^^
ChartScript ==
    OpenMarker \o <<"p", "l", "a", "n">> \o CloseMarker \o FencePython \o <<"\n">>
    \o Import \o <<" ", "x">> \o <<"\n">> \o Fence

\* plot   (a chart_spec that holds no import)
ChartNoImport == <<"p", "l", "o", "t">>

\* the events of an agent run
FlowEvents ==
    { Event(FALSE, EmptyDict),
      Event(TRUE, EmptyDict),
      Event(TRUE, "sql_query" :> SqlFenced),
      Event(TRUE, "query_results" :> JsonTwoRows),
      Event(TRUE, "query_results" :> JsonOneEmptyRow),
      Event(TRUE, "query_results" :> TextRefused),
      Event(TRUE, "query_results" :> JsonNumber),
      Event(TRUE, "query_results" :> JsonSuccessText),
      Event(TRUE, "chart_spec" :> ChartScript @@ "explanation_text" :> <<"e">>),
      Event(TRUE, "query_results" :> JsonEmptyList @@ "chart_spec" :> ChartNoImport),
      Event(TRUE, "sql_query" :> <<"S", "E", "L", "E", "C", "T", " ", "1">>
                  @@ "query_results" :> JsonSuccessRows
                  @@ "chart_spec" :> ChartScript
                  @@ "trend_insights" :> <<"t">>) }

\* the events of the agent runs of two overlapping requests
OverlapEvents ==
    { Event(TRUE, "query_results" :> JsonTwoRows),
      Event(TRUE, "query_results" :> JsonSuccessRows),
      Event(TRUE, "query_results" :> JsonEmptyList) }

---------------------------------------------------------------------------
(* The request flow: process_request from the call to the return, and the   *)
(* export button                                                           *)

NoCalls == [session |-> 0, run |-> 0, raised |-> FALSE]

FlowIdle ==
    /\ pc = [r \in Requests |-> "idle"]
    /\ message = [r \in Requests |-> <<>>]
    /\ events = [r \in Requests |-> <<>>]
    /\ results = [r \in Requests |-> EmptyDict]
    /\ asyncRet = [r \in Requests |-> NoTuple]
    /\ ret = [r \in Requests |-> NoTuple]
    /\ calls = [r \in Requests |-> NoCalls]
    /\ execd = [r \in Requests |-> "no"]
    /\ overlaps = [r \in Requests |-> {}]
    /\ current_df_storage = NoneDf
    /\ lastWrap = "none"
    /\ exported = NoExport

FnIdle ==
    /\ arg = <<>>
    /\ res = <<>>
    /\ res2 = <<>>
    /\ step = "flow"
    /\ tried = <<>>

\* the test for the empty question only
IsBlankExact(msg) == msg = <<>>

\* line 157: not message.strip()
IsBlank(msg) == Strip(msg) = <<>>

InFlight(r) == pc[r] \in {"create_session", "running", "returned"}

\* process_request(message) is called: lines 359-361, 155-158 and 110
Start(r, msg) ==
    /\ pc[r] = "idle"
    /\ message' = [message EXCEPT ![r] = msg]
    /\ overlaps' = [overlaps EXCEPT ![r] = { q \in Requests \ {r} : InFlight(q) }]
    /\ IF IsBlank(msg)
       THEN /\ asyncRet' = [asyncRet EXCEPT ![r] = RejectedTuple]
            /\ pc' = [pc EXCEPT ![r] = "returned"]
            /\ calls' = calls
       ELSE /\ asyncRet' = asyncRet
            /\ pc' = [pc EXCEPT ![r] = "create_session"]
            /\ calls' = [calls EXCEPT ![r].session = @ + 1]
    /\ UNCHANGED <<events, results, ret, execd, current_df_storage, lastWrap, exported>>
    /\ UNCHANGED fnVars

\* lines 110-126: the session exists, run_async is called
RunAsync(r) ==
    /\ pc[r] = "create_session"
    /\ pc' = [pc EXCEPT ![r] = "running"]
    /\ calls' = [calls EXCEPT ![r].run = @ + 1]
    /\ UNCHANGED <<message, events, results, asyncRet, ret, execd, overlaps,
                   current_df_storage, lastWrap, exported>>
    /\ UNCHANGED fnVars

\* lines 130-133: the agent run emits an event
Emit(r, event) ==
    /\ pc[r] = "running"
    /\ Len(events[r]) < MaxEvents
    /\ events' = [events EXCEPT ![r] = Append(@, event)]
    /\ results' = [results EXCEPT ![r] = MergeEvent(@, event)]
    /\ UNCHANGED <<pc, message, asyncRet, ret, calls, execd, overlaps,
                   current_df_storage, lastWrap, exported>>
    /\ UNCHANGED fnVars

\* create_session or the agent run raises an Exception: lines 321-326
AgentRaises(r) ==
    /\ pc[r] \in {"create_session", "running"}
    /\ calls' = [calls EXCEPT ![r].raised = TRUE]
    /\ asyncRet' = [asyncRet EXCEPT ![r] = OuterErrorTuple(<<"agent exception">>)]
    /\ pc' = [pc EXCEPT ![r] = "returned"]
    /\ UNCHANGED <<message, events, results, ret, execd, overlaps,
                   current_df_storage, lastWrap, exported>>
    /\ UNCHANGED fnVars

\* the agent run ends: lines 135 and 163-326
Finish(r, outcome) ==
    /\ pc[r] = "running"
    /\ LET Ended(out) ==
               /\ execd' = [execd EXCEPT ![r] = out.exec]
               /\ asyncRet' = [asyncRet EXCEPT ![r] = out.tuple]
               /\ pc' = [pc EXCEPT ![r] = IF out.raised THEN "raised" ELSE "returned"]
       IN  Ended(Interpret(results[r], outcome))
    /\ UNCHANGED <<message, events, results, ret, calls, overlaps,
                   current_df_storage, lastWrap, exported>>
    /\ UNCHANGED fnVars

\* the forgotten clearing of the slot: line 367 left out
SlotAfterKeepingOld(slot, t) == IF t.df = NoneDf \/ DfEmpty(t.df) THEN slot ELSE t.df

\* lines 364-370: current_df_storage after process_request got the tuple t
SlotAfter(slot, t) == IF t.df = NoneDf \/ DfEmpty(t.df) THEN NoneDf ELSE t.df

\* process_request, lines 362-372: asyncio.run has returned
Wrap(r) ==
    /\ pc[r] = "returned"
    /\ ret' = [ret EXCEPT ![r] = WrapTuple(asyncRet[r])]
    /\ current_df_storage' = SlotAfter(current_df_storage, asyncRet[r])
    /\ lastWrap' = r
    /\ pc' = [pc EXCEPT ![r] = "done"]
    /\ UNCHANGED <<message, events, results, asyncRet, calls, execd, overlaps, exported>>
    /\ UNCHANGED fnVars

\* download_query_results, lines 385-411; written is FALSE when to_csv raises
Download(written) ==
    /\ exported' =
          LET after == { r \in Requests : pc[r] = "done" }
          IN  IF current_df_storage = NoneDf \/ DfEmpty(current_df_storage)
              THEN Export("no_data", NoneDf, after)
              ELSE IF written THEN Export("csv", current_df_storage, after)
              ELSE Export("error", NoneDf, after)
    /\ UNCHANGED <<pc, message, events, results, asyncRet, ret, calls, execd, overlaps,
                   current_df_storage, lastWrap>>
    /\ UNCHANGED fnVars

\* the caller has its answer and may call again; the slot stays as it is
Again(r) ==
    /\ pc[r] \in {"done", "raised"}
    /\ pc' = [pc EXCEPT ![r] = "idle"]
    /\ message' = [message EXCEPT ![r] = <<>>]
    /\ events' = [events EXCEPT ![r] = <<>>]
    /\ results' = [results EXCEPT ![r] = EmptyDict]
    /\ asyncRet' = [asyncRet EXCEPT ![r] = NoTuple]
    /\ ret' = [ret EXCEPT ![r] = NoTuple]
    /\ calls' = [calls EXCEPT ![r] = NoCalls]
    /\ execd' = [execd EXCEPT ![r] = "no"]
    /\ overlaps' = [overlaps EXCEPT ![r] = {}]
    /\ exported' = NoExport
    /\ UNCHANGED <<current_df_storage, lastWrap>>
    /\ UNCHANGED fnVars

---------------------------------------------------------------------------
(* Specification of one caller: requests one after the other, and exports *)

Init == FlowIdle /\ FnIdle

Next ==
    \/ \E msg \in Messages : Start("A", msg)
    \/ RunAsync("A")
    \/ \E event \in FlowEvents : Emit("A", event)
    \/ AgentRaises("A")
    \/ \E outcome \in ExecOutcomes : Finish("A", outcome)
    \/ Wrap("A")
    \/ \E written \in BOOLEAN : Download(written)
    \/ Again("A")

Spec == Init /\ [][Next]_vars

---------------------------------------------------------------------------
(* Specification of two callers whose requests may overlap, each calling   *)
(* once                                                                    *)

NextOverlap ==
    \/ \E r \in Requests : Start(r, <<"q">>)
    \/ \E r \in Requests : RunAsync(r)
    \/ \E r \in Requests : \E event \in OverlapEvents : Emit(r, event)
    \/ \E r \in Requests : AgentRaises(r)
    \/ \E r \in Requests : \E outcome \in ExecOutcomes : Finish(r, outcome)
    \/ \E r \in Requests : Wrap(r)
    \/ \E written \in BOOLEAN : Download(written)

SpecOverlap == Init /\ [][NextOverlap]_vars

---------------------------------------------------------------------------
(* Specification of the SQL Text Normalizer applied once, then again *)

InitNorm ==
    /\ FlowIdle
    /\ arg \in SqlInputs
    /\ res = <<>>
    /\ res2 = <<>>
    /\ step = "input"
    /\ tried = <<>>

NormalizeOnce ==
    /\ step = "input"
    /\ res' = NormalizeSql(arg)
    /\ step' = "once"
    /\ UNCHANGED <<arg, res2, tried>>
    /\ UNCHANGED flowVars

NormalizeTwice ==
    /\ step = "once"
    /\ res2' = NormalizeSql(res)
    /\ step' = "twice"
    /\ UNCHANGED <<arg, res, tried>>
    /\ UNCHANGED flowVars

NextNorm == NormalizeOnce \/ NormalizeTwice

SpecNorm == InitNorm /\ [][NextNorm]_vars

\* C8 (as stated): the normalizer is idempotent on every raw SQL string.
C8_Idempotent == step = "twice" => res2 = res

\* C8 (amended): normalizing a normalized string changes nothing whenever the
\* normalized string holds no closing thinking marker.
C8_IdempotentWithoutMarker ==
    (step = "twice" /\ ~Contains(res, CloseMarker)) => res2 = res

\* C8 witness: the example with a thinking block and a fenced query normalizes
\* to the query, and normalizing the query again leaves it unchanged.
C8_Witness ==
    /\ step = "twice"
    /\ arg = SqlSpecExample
    /\ res = <<"S", "E", "L", "E", "C", "T", " ", "1">>
    /\ res2 = res

---------------------------------------------------------------------------
(* Specification of the Result Parser: the try/except cascade of lines     *)
(* 182-247, one action per strategy                                        *)

\* line 180
Uninitialized ==
    JDict(<<KeySuccess, KeyData, KeyError>>,
          <<JFalse, JList(<<>>),
            JStr(<<"U", "n", "i", "n", "i", "t", "i", "a", "l", "i", "z", "e", "d">>)>>)

InitParse ==
    /\ FlowIdle
    /\ arg \in ParseInputs
    /\ res = Uninitialized
    /\ res2 = <<>>
    /\ step = "input"
    /\ tried = <<>>

\* lines 182-199
TryJson ==
    /\ step = "input"
    /\ tried' = Append(tried, "json")
    /\ IF JsonStrategy(RawStr(arg)).ok
       THEN res' = JsonStrategy(RawStr(arg)).v /\ step' = "done"
       ELSE res' = res /\ step' = "e_json"
    /\ UNCHANGED <<arg, res2>>
    /\ UNCHANGED flowVars

\* lines 203-238
TryMarkdown ==
    /\ step = "e_json"
    /\ tried' = Append(tried, "markdown")
    /\ IF MarkdownStrategy(RawStr(arg)).ok
       THEN res' = MarkdownStrategy(RawStr(arg)).v /\ step' = "done"
       ELSE res' = res /\ step' = "e_table"
    /\ UNCHANGED <<arg, res2>>
    /\ UNCHANGED flowVars

\* lines 238-247
Fallback ==
    /\ step = "e_table"
    /\ tried' = Append(tried, "fallback")
    /\ res' = FallbackResult(RawStr(arg))
    /\ step' = "done"
    /\ UNCHANGED <<arg, res2>>
    /\ UNCHANGED flowVars

NextParse == TryJson \/ TryMarkdown \/ Fallback

SpecParse == InitParse /\ [][NextParse]_vars

---------------------------------------------------------------------------
(* Claims about the Result Parser (specification SpecParse) *)

\* data is a sequence of row-mappings
IsRowList(v) == v.t = "list" /\ \A i \in 1..Len(v.items) : v.items[i].t = "dict"

\* C3: every Parsed Query Result is a record in which success true comes with a
\* data that is a sequence of row-mappings, and success false comes with an
\* empty data and a populated error.
C3_ParsedResultShape ==
    step = "done" =>
        /\ res.t = "dict"
        /\ Truthy(DictGet(res, KeySuccess, JFalse)) =>
               DictHas(res, KeyData) /\ IsRowList(DictGet(res, KeyData, JNull))
        /\ ~Truthy(DictGet(res, KeySuccess, JFalse)) =>
               /\ ~Truthy(DictGet(res, KeyData, JList(<<>>)))
               /\ Truthy(DictGet(res, KeyError, JNull))

\* the first n characters of s
FirstChars(s, n) == [i \in 1..(IF Len(s) < n THEN Len(s) ELSE n) |-> s[i]]

\* C4: the strategies are tried in the order JSON, Markdown table, fallback, each
\* only after the one before it raised; the result is that of the first strategy
\* that does not raise, and when both JSON and Markdown raise it is exactly
\* {success: false, data: [], error: "Could not parse query results. Output: "
\* + the first 100 characters of the trimmed input}.
C4_StrategyOrder ==
    LET raw == Strip(arg)
    IN  /\ tried \in {<<>>, <<"json">>, <<"json", "markdown">>,
                      <<"json", "markdown", "fallback">>}
        /\ Len(tried) >= 2 => ~JsonStrategy(raw).ok
        /\ Len(tried) >= 3 => ~MarkdownStrategy(raw).ok
        /\ step = "done" =>
              /\ tried # <<>>
              /\ Len(tried) = 1 => JsonStrategy(raw).ok /\ res = JsonStrategy(raw).v
              /\ Len(tried) = 2 => MarkdownStrategy(raw).ok /\ res = MarkdownStrategy(raw).v
              /\ Len(tried) = 3 =>
                    /\ res.keys = <<KeySuccess, KeyData, KeyError>>
                    /\ res.items[1] = JFalse
                    /\ res.items[2] = JList(<<>>)
                    /\ res.items[3] = JStr(CouldNotParse \o FirstChars(raw, 100))
        /\ step # "done" => res = Uninitialized

\* C4 witness: both strategies raised on an input longer than 100 characters, and
\* the error holds the prefix and exactly 100 characters of it.
C4_Witness ==
    /\ step = "done"
    /\ tried = <<"json", "markdown", "fallback">>
    /\ Len(Strip(arg)) > 100
    /\ Len(res.items[3].s) = Len(CouldNotParse) + 100

\* the rows the lines of a table contribute when its candidate lines are those
\* from position `first` on: one row per line that is no separator, has as many
\* cells as the header and other cells than the header, in input order
RowsFrom(raw, first) ==
    LET pipeLines == TableLines(raw)
        header == Headers(pipeLines[1])
        Qualifies(i) ==
            /\ i >= first
            /\ pipeLines[i][1] # ":"
            /\ ~Contains(pipeLines[i], <<"-", "-", "-">>)
            /\ Len(Cells(pipeLines[i])) = Len(header)
            /\ Cells(pipeLines[i]) # header
        picked == SelectSeq([i \in 1..Len(pipeLines) |-> i], Qualifies)
    IN  [k \in 1..Len(picked) |-> RowDict(header, Cells(pipeLines[picked[k]]))]

---------------------------------------------------------------------------
(* Claims about the request flow (specification Spec) *)

\* a failure was raised in the flow of request r: by the agent run, by the
\* table construction or the branching on the parsed result (caught at line
\* 321), or by exec() of the charting script
Failed(r) ==
    \/ calls[r].raised
    \/ asyncRet[r].via = "line326"
    \/ execd[r] \in {"SyntaxError", "Exception", "SystemExit"}

\* the tuple is (error_string, null, null, error_string)
IsErrorTuple(t) == t.df.kind = "None" /\ t.chart = "None" /\ t.sql = t.expl

\* C1: no failure raised anywhere in the flow is propagated to the caller: the
\* call always returns, and after a failure both process_request_async and
\* process_request return (error_string, null, null, error_string).
C1_AlwaysErrorTuple ==
    \A r \in Requests :
        /\ pc[r] # "raised"
        /\ (pc[r] \in {"returned", "done"} /\ Failed(r)) => IsErrorTuple(asyncRet[r])
        /\ (pc[r] = "done" /\ Failed(r)) => IsErrorTuple(ret[r])

\* the question is empty or holds whitespace only
OnlyWhitespace(msg) == \A i \in 1..Len(msg) : msg[i] \in {" ", "\n", "\t", "\r"}

\* C2 (as stated): a question that is empty or whitespace only is answered with an
\* error tuple with no table and no chart, and no session-creation call and no
\* pipeline-run call is issued for it.
C2_RejectedNoChart ==
    \A r \in Requests :
        (pc[r] = "done" /\ OnlyWhitespace(message[r])) =>
            /\ ret[r].df.kind = "None"
            /\ ret[r].chart = "None"
            /\ calls[r].session = 0 /\ calls[r].run = 0

\* C2 (amended): for such a question process_request_async returns the error
\* tuple of line 158 with no table and no chart, no call to the agent is issued
\* and no event is received; process_request returns the same SQL and
\* explanation texts and no table, with the placeholder chart.
C2_RejectedBeforeAgent ==
    \A r \in Requests :
        (pc[r] \in {"returned", "done"} /\ OnlyWhitespace(message[r])) =>
            /\ asyncRet[r].via = "line158"
            /\ asyncRet[r].df.kind = "None"
            /\ asyncRet[r].chart = "None"
            /\ calls[r].session = 0 /\ calls[r].run = 0 /\ ~calls[r].raised
            /\ events[r] = <<>>
            /\ execd[r] = "no"
            /\ pc[r] = "done" =>
                  /\ ret[r].sql = asyncRet[r].sql
                  /\ ret[r].expl = asyncRet[r].expl
                  /\ ret[r].df.kind = "None"
                  /\ ret[r].chart = "placeholder"

\* C2 witness: the whitespace-only question has been answered.
C2_Witness ==
    /\ pc["A"] = "done"
    /\ message["A"] = <<" ", "\n">>
    /\ ret["A"].sql = <<"Error: Please enter a question">>
    /\ ret["A"].chart = "placeholder"
    /\ calls["A"] = NoCalls

\* C5: whenever the table of a response is empty or absent, its chart is the
\* placeholder and the charting script was not executed for that request.
C5_EmptyTableNoExec ==
    \A r \in Requests :
        (/\ pc[r] = "done"
         /\ ret[r].df.kind = "None" \/ ret[r].df.rows = 0 \/ ret[r].df.cols = {}) =>
            /\ ret[r].chart = "placeholder"
            /\ execd[r] = "no"

LastWriter(evs, k) ==
    CHOOSE i \in 1..Len(evs) :
        /\ k \in DOMAIN evs[i].state_delta
        /\ \A j \in (i + 1)..Len(evs) : k \notin DOMAIN evs[j].state_delta

\* C7: the Pipeline State holds exactly the keys that appeared in a state delta,
\* each with the value of the last event whose delta holds it.
C7_LastWriterWins ==
    \A r \in Requests :
        /\ DOMAIN results[r] =
              UNION { DOMAIN events[r][i].state_delta : i \in 1..Len(events[r]) }
        /\ \A k \in DOMAIN results[r] :
              results[r][k] = events[r][LastWriter(events[r], k)].state_delta[k]

\* C7 witness: two events wrote query_results with different values and only
\* the first wrote chart_spec; the state holds the second's query_results and
\* the first's chart_spec.
C7_Witness ==
    /\ pc["A"] \in {"returned", "done"}
    /\ Len(events["A"]) = 2
    /\ "query_results" \in DOMAIN events["A"][1].state_delta
    /\ "query_results" \in DOMAIN events["A"][2].state_delta
    /\ events["A"][1].state_delta["query_results"] # events["A"][2].state_delta["query_results"]
    /\ "chart_spec" \in DOMAIN events["A"][1].state_delta
    /\ "chart_spec" \notin DOMAIN events["A"][2].state_delta
    /\ results["A"]["query_results"] = events["A"][2].state_delta["query_results"]
    /\ results["A"]["chart_spec"] = events["A"][1].state_delta["chart_spec"]

---------------------------------------------------------------------------
(* Claim about overlapping requests (specification SpecOverlap) *)

\* the table a response leaves for export: none when it is absent or empty
Kept(df) == IF df.kind = "None" \/ df.rows = 0 \/ df.cols = {} THEN NoneDf ELSE df

\* C10: the most-recent-table slot is one per process and not isolated between
\* overlapping requests: it holds what the response returned last, by whichever
\* request, left for export, and a CSV export gives the table of some returned
\* response, not of a particular one.
C10_SlotSharedByRequests ==
    /\ current_df_storage = IF lastWrap = "none" THEN NoneDf ELSE Kept(ret[lastWrap].df)
    /\ exported.kind = "csv" =>
          /\ exported.table.rows > 0
          /\ \E r \in exported.after : exported.table = ret[r].df
    /\ exported.kind \in {"no_data", "error"} => exported.table = NoneDf

\* C10 witness: B started while A was in flight, A's response was returned with
\* a table, then B's, and the CSV export issued after both holds B's table, which
\* is not the table of A's response.
C10_Witness ==
    /\ pc = [r \in Requests |-> "done"]
    /\ "A" \in overlaps["B"]
    /\ lastWrap = "B"
    /\ ret["A"].df.rows > 0
    /\ exported.kind = "csv"
    /\ "A" \in exported.after
    /\ exported.table = ret["B"].df
    /\ exported.table # ret["A"].df

---------------------------------------------------------------------------
(* Claim about calls one after the other (specification Spec) *)

\* C11: after non-overlapping calls to process_request the most-recent-table
\* slot holds the table returned by the last call if that table is non-empty and
\* is null otherwise, also when the last call failed; the slot is always null or
\* a non-empty table; and a CSV export issued after a call that failed or
\* returned no data reports that there is no data.
C11_SlotFollowsLastCall ==
    /\ current_df_storage.kind = "None"
          \/ (current_df_storage.rows > 0 /\ current_df_storage.cols # {})
    /\ \A r \in Requests :
          /\ pc[r] = "done" =>
                current_df_storage =
                    IF ret[r].df.kind = "None" \/ ret[r].df.rows = 0 \/ ret[r].df.cols = {}
                    THEN NoneDf ELSE ret[r].df
          /\ pc[r] = "raised" => current_df_storage = NoneDf
          /\ (/\ pc[r] = "done"
              /\ r \in exported.after
              /\ ret[r].df.kind = "None" \/ ret[r].df.rows = 0 \/ ret[r].df.cols = {}) =>
                exported.kind = "no_data"

====
